---- MODULE Spec2Model ----
(***************************************************************************)
(* Model of SyncToS3Activity.py: class S3SyncTool and its sync() run.      *)
(*                                                                         *)
(* Strings (paths, object keys, digests, ETags) are sequences of           *)
(* one-character strings, so that the path arithmetic of the program       *)
(* (os.path.relpath, os.path.join, str.replace, str.strip) is computed     *)
(* and not assumed.  os.path is posixpath (the program runs on a POSIX     *)
(* host).                                                                  *)
(***************************************************************************)
EXTENDS Integers, Sequences, FiniteSets, TLC

(***************************************************************************)
(* Bounds of the model.                                                    *)
(***************************************************************************)
\* largest number of objects in the bucket when the run starts
MaxObjects == 2
\* largest value of --threads that is explored (0 is explored as well)
MaxThreads == 2

(***************************************************************************)
(* String helpers: the str and posixpath functions the program calls.      *)
(***************************************************************************)
Sep == "/"
CurDir == "."
Quote == "\""
BackSlash == "\\"

\* the process's working directory (os.getcwd()), as a path
Cwd == <<"/", "w">>

\* s.replace(old, new) for one-character old and new
Replace(s, old, new) == [i \in 1..Len(s) |-> IF s[i] = old THEN new ELSE s[i]]

\* s.startswith(p)
StartsWith(s, p) == Len(p) <= Len(s) /\ SubSeq(s, 1, Len(p)) = p

\* s.endswith(p)
EndsWith(s, p) == Len(p) <= Len(s) /\ SubSeq(s, Len(s) - Len(p) + 1, Len(s)) = p

RECURSIVE SplitAcc(_, _, _)
SplitAcc(s, cur, acc) ==
    IF s = <<>> THEN Append(acc, cur)
    ELSE IF Head(s) = Sep THEN SplitAcc(Tail(s), <<>>, Append(acc, cur))
    ELSE SplitAcc(Tail(s), Append(cur, Head(s)), acc)

\* s.split('/'): the list of components, empty ones included
Split(s) == SplitAcc(s, <<>>, <<>>)

RECURSIVE JoinSep(_)
\* '/'.join(comps)
JoinSep(comps) ==
    IF comps = <<>> THEN <<>>
    ELSE IF Len(comps) = 1 THEN comps[1]
    ELSE comps[1] \o <<Sep>> \o JoinSep(Tail(comps))

\* the components '.' and '..' as strings
DotComp == <<CurDir>>
DotDotComp == <<CurDir, CurDir>>

\* posixpath.join(a, b)
PathJoin(a, b) ==
    IF StartsWith(b, <<Sep>>) THEN b
    ELSE IF a = <<>> \/ EndsWith(a, <<Sep>>) THEN a \o b
    ELSE a \o <<Sep>> \o b

\* posixpath.normpath: the number of leading slashes that are kept (0, 1, 2)
InitialSlashes(path) ==
    IF ~StartsWith(path, <<Sep>>) THEN 0
    ELSE IF StartsWith(path, <<Sep, Sep>>) /\ ~StartsWith(path, <<Sep, Sep, Sep>>) THEN 2
    ELSE 1

RECURSIVE NormComps(_, _, _)
\* posixpath.normpath: the loop over the components
NormComps(comps, new, initial) ==
    IF comps = <<>> THEN new
    ELSE LET comp == Head(comps) IN
         IF comp = <<>> \/ comp = DotComp THEN NormComps(Tail(comps), new, initial)
         ELSE IF \/ comp # DotDotComp
                 \/ (initial = 0 /\ new = <<>>)
                 \/ (new # <<>> /\ new[Len(new)] = DotDotComp)
              THEN NormComps(Tail(comps), Append(new, comp), initial)
         ELSE IF new # <<>>
              THEN NormComps(Tail(comps), SubSeq(new, 1, Len(new) - 1), initial)
         ELSE NormComps(Tail(comps), new, initial)

\* posixpath.normpath(path)
NormPath(path) ==
    IF path = <<>> THEN DotComp
    ELSE LET initial == InitialSlashes(path)
             body == JoinSep(NormComps(Split(path), <<>>, initial))
             res == [i \in 1..initial |-> Sep] \o body
         IN IF res = <<>> THEN DotComp ELSE res

\* posixpath.abspath(path)
AbsPath(path) ==
    IF StartsWith(path, <<Sep>>) THEN NormPath(path) ELSE NormPath(PathJoin(Cwd, path))

\* [x for x in s.split('/') if x]
NonEmptyComps(s) == SelectSeq(Split(s), LAMBDA c : c # <<>>)

RECURSIVE CommonLen(_, _)
\* len(commonprefix([a, b])) for two component lists
CommonLen(a, b) ==
    IF a = <<>> \/ b = <<>> \/ Head(a) # Head(b) THEN 0
    ELSE 1 + CommonLen(Tail(a), Tail(b))

\* posixpath.relpath(path, start), for a non-empty path
RelPath(path, start) ==
    LET startList == NonEmptyComps(AbsPath(start))
        pathList == NonEmptyComps(AbsPath(path))
        i == CommonLen(startList, pathList)
        relList == [k \in 1..(Len(startList) - i) |-> DotDotComp]
                       \o SubSeq(pathList, i + 1, Len(pathList))
    IN IF relList = <<>> THEN DotComp ELSE JoinSep(relList)

RECURSIVE LStrip(_, _)
LStrip(s, c) == IF s # <<>> /\ Head(s) = c THEN LStrip(Tail(s), c) ELSE s

RECURSIVE RStrip(_, _)
RStrip(s, c) ==
    IF s # <<>> /\ s[Len(s)] = c THEN RStrip(SubSeq(s, 1, Len(s) - 1), c) ELSE s

\* s.strip(c) for a one-character c
Strip(s, c) == RStrip(LStrip(s, c), c)


(***************************************************************************)
(* Ordered dictionaries (Python dict keeps insertion order): a sequence of *)
(* <<key, value>> pairs with pairwise different keys.                      *)
(***************************************************************************)
DictKeys(d) == {d[i][1] : i \in 1..Len(d)}

\* the keys in iteration order (d.keys())
DictKeySeq(d) == [i \in 1..Len(d) |-> d[i][1]]

\* key in d
DictHas(d, k) == \E i \in 1..Len(d) : d[i][1] = k

\* d.get(k): <<>> for None, <<v>> for a value v
DictGet(d, k) ==
    IF DictHas(d, k) THEN <<d[CHOOSE i \in 1..Len(d) : d[i][1] = k][2]>> ELSE <<>>

\* d[k] = v: an existing key keeps its place, a new key goes last
DictSet(d, k, v) ==
    IF DictHas(d, k)
    THEN [i \in 1..Len(d) |-> IF d[i][1] = k THEN <<k, v>> ELSE d[i]]
    ELSE Append(d, <<k, v>>)

\* Python truth value of the result of d.get(k): None and '' are false
Falsy(opt) == opt = <<>> \/ opt[1] = <<>>

\* all enumerations without repetition of a finite set
Perms(S) ==
    {f \in [1..Cardinality(S) -> S] : \A i, j \in 1..Cardinality(S) : f[i] = f[j] => i = j}

(***************************************************************************)
(* The world the program runs in: the local tree and the bucket.           *)
(***************************************************************************)
\* file contents (the bytes of a file), kept abstract
Contents == {"x", "y"}

\* hashlib.md5(...).hexdigest() of a content: an injective table of digests
Md5Hex(content) == IF content = "x" THEN <<"1">> ELSE <<"2">>

\* the ETag the store reports for an object holding the content: the quoted digest
ETagOf(content) == <<Quote>> \o Md5Hex(content) \o <<Quote>>

\* --localFolder
LocalFolder == <<"r">>

\* the directories os.walk can visit and the file names it can find there
WalkUniverse ==
    { <<LocalFolder, <<"a">>>>,
      <<LocalFolder, <<"b">>>>,
      <<LocalFolder \o <<Sep, "c">>, <<"a">>>> }

\* the full paths of the files the local tree can hold
FullPathUniverse == {PathJoin(w[1], w[2]) : w \in WalkUniverse}

\* the object keys the bucket can hold when the run starts
KeyUniverse ==
    { <<"a">>,
      <<"d", Sep, "a">>,
      <<"d", Sep, "b">>,
      <<"d", "a">>,
      <<"d">>,
      <<"d", Sep, Sep, "a">> }

\* the values of --prefix that are explored
Prefixes == { <<>>, <<"d">>, <<"d", Sep>> }

\* the content of each file the local tree can hold
FileContent(fullPath) == IF fullPath = PathJoin(LocalFolder, <<"b">>) THEN "y" ELSE "x"

\* the local trees: every set of files of the universe
LocalTrees == {[p \in D |-> FileContent(p)] : D \in SUBSET FullPathUniverse}

\* the position of a character in the store's (UTF-8 binary) key order
Code(c) ==
    IF c = Quote THEN 34
    ELSE IF c = CurDir THEN 46
    ELSE IF c = Sep THEN 47
    ELSE IF c = BackSlash THEN 92
    ELSE IF c = "a" THEN 97
    ELSE IF c = "b" THEN 98
    ELSE IF c = "c" THEN 99
    ELSE 100

RECURSIVE KeyLess(_, _)
\* s sorts before t in the store's listing
KeyLess(s, t) ==
    IF t = <<>> THEN FALSE
    ELSE IF s = <<>> THEN TRUE
    ELSE IF Head(s) # Head(t) THEN Code(Head(s)) < Code(Head(t))
    ELSE KeyLess(Tail(s), Tail(t))

RECURSIVE SortedKeys(_)
\* the keys of a set in the order the store lists them
SortedKeys(S) ==
    IF S = {} THEN <<>>
    ELSE LET least == CHOOSE k \in S : \A o \in S \ {k} : KeyLess(k, o)
         IN <<least>> \o SortedKeys(S \ {least})

\* the directory of a full path, as a component list
DirComps(fullPath) ==
    LET comps == Split(fullPath) IN SubSeq(comps, 1, Len(comps) - 1)

\* a is a proper ancestor directory of b
ProperAncestor(a, b) == Len(a) < Len(b) /\ SubSeq(b, 1, Len(a)) = a

\* os.walk is top-down: the files of a directory come before the files of
\* the directories below it; the order inside a directory is the host's
WalkOrders(paths) ==
    {o \in Perms(paths) :
        \A i, j \in 1..Len(o) :
            ProperAncestor(DirComps(o[i]), DirComps(o[j])) => i < j}

VARIABLES
    localFS,      \* the local tree: full path -> content
    store,        \* the bucket: object key -> ETag as the store reports it
    prefix,       \* self.prefix
    dryRun,       \* self.dryRun
    maxThreads,   \* self.maxThreads
    pc,           \* where sync() is
    localFiles,   \* sync(): localFiles
    s3Objects,    \* sync(): s3Objects
    uploads,      \* sync(): uploads
    deletes,      \* sync(): deletes
    queue,        \* the pool's work queue: submitted uploads no worker has taken
    inflight,     \* the uploads a worker thread is running
    delIdx,       \* how many items of deletes the delete loop has passed
    out,          \* the lines printed so far
    calls,        \* the mutating store calls made so far, with their outcome
    error,        \* the exception that left sync(), "none" while there is none
    exit          \* the exit status of the process, -1 while it runs

vars == <<localFS, store, prefix, dryRun, maxThreads, pc, localFiles, s3Objects,
          uploads, deletes, queue, inflight, delIdx, out, calls, error, exit>>

config == <<localFS, prefix, dryRun, maxThreads>>

\* how sync() and the process ended
outcome == <<error, exit>>

\* a printed line: the message, the path or key in it, the number in it
Line(msg, arg, n) == [msg |-> msg, arg |-> arg, n |-> n]

\* a mutating call on the store client and whether it succeeded
Call(op, key, ok) == [op |-> op, key |-> key, ok |-> ok]

\* functions from the subsets of S with at most n elements to T
SmallMaps(S, n, T) ==
    UNION {[D -> T] : D \in {D \in SUBSET S : Cardinality(D) <= n}}

Init ==
    /\ localFS \in LocalTrees
    /\ store \in SmallMaps(KeyUniverse, MaxObjects, {ETagOf(c) : c \in Contents})
    /\ prefix \in Prefixes
    /\ dryRun \in BOOLEAN
    /\ maxThreads \in 0..MaxThreads
    /\ pc = "Idle"
    /\ localFiles = <<>>
    /\ s3Objects = <<>>
    /\ uploads = <<>>
    /\ deletes = <<>>
    /\ queue = <<>>
    /\ inflight = {}
    /\ delIdx = 0
    /\ out = <<>>
    /\ calls = <<>>
    /\ error = "none"
    /\ exit = -1


(***************************************************************************)
(* listLocalFiles and listS3Objects.                                       *)
(***************************************************************************)
RECURSIVE LocalLoop(_, _, _)
\* listLocalFiles: the loop over the files os.walk yields, in its order
LocalLoop(order, fs, files) ==
    IF order = <<>> THEN files
    ELSE LET fullPath == Head(order)
             relativePath == Replace(RelPath(fullPath, LocalFolder), BackSlash, Sep)
         IN LocalLoop(Tail(order), fs, DictSet(files, relativePath, Md5Hex(fs[fullPath])))

\* listS3Objects: the relative key recorded for a listed key
RelativeKey(key, pfx) ==
    IF pfx # <<>> THEN Replace(RelPath(key, pfx), BackSlash, Sep) ELSE key

\* list_objects_v2(Bucket, Prefix): the keys that begin with the prefix, over
\* all pages, in the store's key order
Listed(st, pfx) == SortedKeys({k \in DOMAIN st : StartsWith(k, pfx)})

RECURSIVE S3Loop(_, _, _, _)
\* listS3Objects: the loop over the listed objects, in the order of the pages
S3Loop(order, st, pfx, objects) ==
    IF order = <<>> THEN objects
    ELSE LET key == Head(order)
             etag == Strip(st[key], Quote)
         IN S3Loop(Tail(order), st, pfx, DictSet(objects, RelativeKey(key, pfx), etag))

(***************************************************************************)
(* sync(): the two classification loops.                                   *)
(***************************************************************************)
\* mutant of Classify: the elif branch for a differing identifier is missing
ClassifyIgnoresChange(localMd5, s3Md5) ==
    IF Falsy(s3Md5) THEN "missing" ELSE "current"

\* the branch the first loop takes for a local file
Classify(localMd5, s3Md5) ==
    IF Falsy(s3Md5) THEN "missing"
    ELSE IF localMd5 # s3Md5[1] THEN "changed"
    ELSE "current"

\* the line the first loop prints for a class
ClassMsg(class) ==
    IF class = "missing" THEN "Datei fehlt im S3"
    ELSE IF class = "changed" THEN "Datei geaendert"
    ELSE "Datei aktuell"

RECURSIVE UploadLoop(_, _, _)
\* for localFile, localMd5 in localFiles.items(): the uploads and the lines printed
UploadLoop(items, remote, acc) ==
    IF items = <<>> THEN acc
    ELSE LET localFile == Head(items)[1]
             localMd5 == Head(items)[2]
             class == Classify(localMd5, DictGet(remote, localFile))
         IN UploadLoop(Tail(items), remote,
                [ups |-> IF class = "current" THEN acc.ups ELSE Append(acc.ups, localFile),
                 lines |-> Append(acc.lines, Line(ClassMsg(class), localFile, 0))])

\* mutant of Orphaned: the membership test is inverted
OrphanedInverted(s3Object, local) == DictHas(local, s3Object)

\* mutant of Orphaned: the membership test is missing
OrphanedAlways(s3Object, local) == TRUE

\* the test of the second loop: s3Object not in localFiles
Orphaned(s3Object, local) == ~DictHas(local, s3Object)

RECURSIVE DeleteLoop(_, _, _)
\* for s3Object in s3Objects.keys(): the deletes and the lines printed
DeleteLoop(keys, local, acc) ==
    IF keys = <<>> THEN acc
    ELSE LET s3Object == Head(keys) IN
         IF Orphaned(s3Object, local)
         THEN DeleteLoop(Tail(keys), local,
                  [dels |-> Append(acc.dels, s3Object),
                   lines |-> Append(acc.lines, Line("Datei verwaist im S3", s3Object, 0))])
         ELSE DeleteLoop(Tail(keys), local, acc)

\* the upload list sync() builds from two manifests
UploadList(local, remote) == UploadLoop(local, remote, [ups |-> <<>>, lines |-> <<>>]).ups

\* the delete list sync() builds from two manifests
DeleteList(local, remote) ==
    DeleteLoop(DictKeySeq(remote), local, [dels |-> <<>>, lines |-> <<>>]).dels

(***************************************************************************)
(* uploadFile and deleteS3Object: the key and the local path they use.     *)
(***************************************************************************)
\* os.path.join(self.prefix, name).replace("\\", "/") if self.prefix else name
S3Key(pfx, name) ==
    IF pfx # <<>> THEN Replace(PathJoin(pfx, name), BackSlash, Sep) ELSE name

\* os.path.join(self.localFolder, localFile)
LocalPath(localFile) == PathJoin(LocalFolder, localFile)

\* mutant of SkipsStore: the dry-run test is missing
SkipsStoreNever(dry) == FALSE

\* if self.dryRun: print and return, before any call on the store
SkipsStore(dry) == dry

\* mutant of WorkerFree: one thread per submitted task, without a limit
WorkerFreeAlways(running, limit) == TRUE

\* ThreadPoolExecutor(max_workers): a thread takes a task only while fewer
\* than max_workers tasks are running
WorkerFree(running, limit) == Cardinality(running) < limit

\* mutant of PoolDrained: the pool is left without waiting (wait=False)
PoolDrainedNoWait(pending, running) == TRUE

\* leaving the with block (executor shutdown, wait=True): every submitted
\* task has been taken and has finished
PoolDrained(pending, running) == pending = <<>> /\ running = {}

\* the worker threads exist from the creation of the pool on
PoolAlive == pc \in {"Uploading", "Deleting", "Done"}

(***************************************************************************)
(* The steps of sync().                                                    *)
(***************************************************************************)
\* line 79-81: the start line and listLocalFiles
ListLocalFiles ==
    /\ pc = "Idle"
    /\ \E order \in WalkOrders(DOMAIN localFS) :
           localFiles' = LocalLoop(order, localFS, <<>>)
    /\ out' = Append(out, Line("Starte Synchronisation...", <<>>, 0))
    /\ pc' = "LocalListed"
    /\ UNCHANGED <<config, outcome, store, s3Objects, uploads, deletes, queue,
                   inflight, delIdx, calls>>

\* line 82: listS3Objects
ListS3Objects ==
    /\ pc = "LocalListed"
    /\ s3Objects' = S3Loop(Listed(store, prefix), store, prefix, <<>>)
    /\ pc' = "RemoteListed"
    /\ UNCHANGED <<config, outcome, store, localFiles, uploads, deletes, queue,
                   inflight, delIdx, out, calls>>

\* lines 22-26, 46-52: calculateMd5 raises for a file (it vanished, it cannot
\* be read); nothing catches the exception in listLocalFiles, sync() or main()
ListLocalFail ==
    /\ pc = "Idle"
    /\ DOMAIN localFS # {}
    /\ out' = Append(out, Line("Starte Synchronisation...", <<>>, 0))
    /\ pc' = "Crashed"
    /\ error' = "LocalReadError"
    /\ exit' = 1
    /\ UNCHANGED <<config, store, localFiles, s3Objects, uploads, deletes, queue,
                   inflight, delIdx, calls>>

\* mutant of ListS3Fail: listS3Objects catches the exception and returns the
\* objects of the pages read so far
ListS3FailSwallowed ==
    /\ pc = "LocalListed"
    /\ \E n \in 0..Len(Listed(store, prefix)) :
           s3Objects' = S3Loop(SubSeq(Listed(store, prefix), 1, n), store, prefix, <<>>)
    /\ pc' = "RemoteListed"
    /\ error' = "RemoteListError"
    /\ UNCHANGED <<config, exit, store, localFiles, uploads, deletes, queue,
                   inflight, delIdx, out, calls>>

\* lines 31-36: the paginator raises on its first or on a later page (the
\* bucket is missing, access is denied); the objects read so far are lost with
\* the local dict, and nothing catches the exception
ListS3Fail ==
    /\ pc = "LocalListed"
    /\ pc' = "Crashed"
    /\ error' = "RemoteListError"
    /\ exit' = 1
    /\ UNCHANGED <<config, store, localFiles, s3Objects, uploads, deletes, queue,
                   inflight, delIdx, out, calls>>

\* lines 31-36, 142-143: the first call on the store finds no credentials;
\* main() catches NoCredentialsError, prints and returns
ListS3NoCredentials ==
    /\ pc = "LocalListed"
    /\ pc' = "Crashed"
    /\ error' = "NoCredentialsError"
    /\ out' = Append(out, Line("Fehler: Keine AWS Credentials gefunden.", <<>>, 0))
    /\ exit' = 0
    /\ UNCHANGED <<config, store, localFiles, s3Objects, uploads, deletes, queue,
                   inflight, delIdx, calls>>

\* lines 84-103: the two classification loops
Reconcile ==
    /\ pc = "RemoteListed"
    /\ LET up == UploadLoop(localFiles, s3Objects, [ups |-> <<>>, lines |-> <<>>])
           del == DeleteLoop(DictKeySeq(s3Objects), localFiles,
                             [dels |-> <<>>, lines |-> <<>>])
       IN /\ uploads' = up.ups
          /\ deletes' = del.dels
          /\ out' = out \o up.lines \o del.lines
    /\ pc' = "Reconciled"
    /\ UNCHANGED <<config, outcome, store, localFiles, s3Objects, queue, inflight,
                   delIdx, calls>>

\* line 106: no uploads, the pool is not created
SkipPool ==
    /\ pc = "Reconciled"
    /\ uploads = <<>>
    /\ pc' = "Deleting"
    /\ UNCHANGED <<config, outcome, store, localFiles, s3Objects, uploads, deletes,
                   queue, inflight, delIdx, out, calls>>

\* lines 107-109: the count line, the pool, executor.map submits every upload
OpenPool ==
    /\ pc = "Reconciled"
    /\ uploads # <<>>
    /\ maxThreads >= 1
    /\ out' = Append(out, Line("Dateien werden hochgeladen...", <<>>, Len(uploads)))
    /\ queue' = uploads
    /\ pc' = "Uploading"
    /\ UNCHANGED <<config, outcome, store, localFiles, s3Objects, uploads, deletes,
                   inflight, delIdx, calls>>

\* line 108: ThreadPoolExecutor raises ValueError for max_workers <= 0
PoolError ==
    /\ pc = "Reconciled"
    /\ uploads # <<>>
    /\ maxThreads < 1
    /\ out' = Append(out, Line("Dateien werden hochgeladen...", <<>>, Len(uploads)))
    /\ pc' = "Crashed"
    /\ error' = "ValueError"
    /\ exit' = 1
    /\ UNCHANGED <<config, store, localFiles, s3Objects, uploads, deletes, queue,
                   inflight, delIdx, calls>>

\* mutant of UploadBegin: the task is taken without being removed from the
\* work queue, so another worker can take it again
UploadBeginNoPop ==
    /\ PoolAlive
    /\ queue # <<>>
    /\ WorkerFree(inflight, maxThreads)
    /\ inflight' = inflight \cup {Head(queue)}
    /\ UNCHANGED <<config, outcome, store, pc, localFiles, s3Objects, uploads, deletes,
                   queue, delIdx, out, calls>>

\* a worker thread of the pool takes the next submitted upload
UploadBegin ==
    /\ PoolAlive
    /\ queue # <<>>
    /\ WorkerFree(inflight, maxThreads)
    /\ inflight' = inflight \cup {Head(queue)}
    /\ queue' = Tail(queue)
    /\ UNCHANGED <<config, outcome, store, pc, localFiles, s3Objects, uploads, deletes,
                   delIdx, out, calls>>

\* lines 56-61: uploadFile in dry-run mode
UploadDry(localFile) ==
    /\ PoolAlive
    /\ localFile \in inflight
    /\ SkipsStore(dryRun)
    /\ out' = Append(out, Line("[DryRun] Wuerde hochladen", S3Key(prefix, localFile), 0))
    /\ inflight' = inflight \ {localFile}
    /\ UNCHANGED <<config, outcome, store, pc, localFiles, s3Objects, uploads, deletes,
                   queue, delIdx, calls>>

\* lines 56-64: uploadFile, upload_file succeeds
UploadOk(localFile) ==
    /\ PoolAlive
    /\ localFile \in inflight
    /\ ~SkipsStore(dryRun)
    /\ LocalPath(localFile) \in DOMAIN localFS
    /\ LET s3Key == S3Key(prefix, localFile)
           etag == ETagOf(localFS[LocalPath(localFile)])
       IN /\ store' = [k \in DOMAIN store \cup {s3Key} |->
                           IF k = s3Key THEN etag ELSE store[k]]
          /\ calls' = Append(calls, Call("upload", s3Key, TRUE))
          /\ out' = Append(out, Line("Hochgeladen", s3Key, 0))
    /\ inflight' = inflight \ {localFile}
    /\ UNCHANGED <<config, outcome, pc, localFiles, s3Objects, uploads, deletes, queue,
                   delIdx>>

\* mutant of UploadFail: the exception of one upload cancels the uploads
\* that no worker has taken yet
UploadFailAborts(localFile) ==
    /\ PoolAlive
    /\ localFile \in inflight
    /\ ~SkipsStore(dryRun)
    /\ calls' = Append(calls, Call("upload", S3Key(prefix, localFile), FALSE))
    /\ inflight' = inflight \ {localFile}
    /\ queue' = <<>>
    /\ UNCHANGED <<config, outcome, store, pc, localFiles, s3Objects, uploads, deletes,
                   delIdx, out>>

\* lines 56-63: uploadFile, upload_file raises; the exception stays in the
\* future that executor.map made and that nobody reads
UploadFail(localFile) ==
    /\ PoolAlive
    /\ localFile \in inflight
    /\ ~SkipsStore(dryRun)
    /\ calls' = Append(calls, Call("upload", S3Key(prefix, localFile), FALSE))
    /\ inflight' = inflight \ {localFile}
    /\ UNCHANGED <<config, outcome, store, pc, localFiles, s3Objects, uploads, deletes,
                   queue, delIdx, out>>

\* line 109-111: the with block ends when the pool has drained
ClosePool ==
    /\ pc = "Uploading"
    /\ PoolDrained(queue, inflight)
    /\ pc' = "Deleting"
    /\ UNCHANGED <<config, outcome, store, localFiles, s3Objects, uploads, deletes,
                   queue, inflight, delIdx, out, calls>>

\* lines 112-113, 68-72: deleteS3Object in dry-run mode
DeleteDry ==
    /\ pc = "Deleting"
    /\ delIdx < Len(deletes)
    /\ SkipsStore(dryRun)
    /\ out' = Append(out, Line("[DryRun] Wuerde loeschen",
                               S3Key(prefix, deletes[delIdx + 1]), 0))
    /\ delIdx' = delIdx + 1
    /\ UNCHANGED <<config, outcome, store, pc, localFiles, s3Objects, uploads, deletes,
                   queue, inflight, calls>>

\* lines 112-113, 68-75: deleteS3Object, delete_object succeeds (the store
\* answers success for a key it does not hold, too)
DeleteOk ==
    /\ pc = "Deleting"
    /\ delIdx < Len(deletes)
    /\ ~SkipsStore(dryRun)
    /\ LET s3Key == S3Key(prefix, deletes[delIdx + 1])
       IN /\ store' = [k \in DOMAIN store \ {s3Key} |-> store[k]]
          /\ calls' = Append(calls, Call("delete", s3Key, TRUE))
          /\ out' = Append(out, Line("Geloescht", s3Key, 0))
    /\ delIdx' = delIdx + 1
    /\ UNCHANGED <<config, outcome, pc, localFiles, s3Objects, uploads, deletes, queue,
                   inflight>>

\* lines 112-113, 74: delete_object raises; nothing catches it in the loop
\* or in sync(), so the run ends there
DeleteFail ==
    /\ pc = "Deleting"
    /\ delIdx < Len(deletes)
    /\ ~SkipsStore(dryRun)
    /\ calls' = Append(calls, Call("delete", S3Key(prefix, deletes[delIdx + 1]), FALSE))
    /\ pc' = "Crashed"
    /\ error' = "TransferError"
    /\ exit' = 1
    /\ UNCHANGED <<config, store, localFiles, s3Objects, uploads, deletes, queue,
                   inflight, delIdx, out>>

\* line 115: the loop is over, the completion line
Finish ==
    /\ pc = "Deleting"
    /\ delIdx = Len(deletes)
    /\ out' = Append(out, Line("Synchronisation abgeschlossen.", <<>>, 0))
    /\ pc' = "Done"
    /\ UNCHANGED error
    /\ exit' = 0
    /\ UNCHANGED <<config, store, localFiles, s3Objects, uploads, deletes, queue,
                   inflight, delIdx, calls>>

Next ==
    \/ ListLocalFiles
    \/ ListLocalFail
    \/ ListS3Objects
    \/ ListS3Fail
    \/ ListS3NoCredentials
    \/ Reconcile
    \/ SkipPool
    \/ OpenPool
    \/ PoolError
    \/ UploadBegin
    \/ \E f \in inflight : UploadDry(f)
    \/ \E f \in inflight : UploadOk(f)
    \/ \E f \in inflight : UploadFail(f)
    \/ ClosePool
    \/ DeleteDry
    \/ DeleteOk
    \/ DeleteFail
    \/ Finish

Spec == Init /\ [][Next]_vars


(***************************************************************************)
(* Vocabulary of the properties.                                           *)
(***************************************************************************)
Range(seq) == {seq[i] : i \in 1..Len(seq)}

NoDup(seq) == \A i, j \in 1..Len(seq) : seq[i] = seq[j] => i = j

\* a manifest as a set of <<path, identifier>> pairs
AsMap(d) == {<<d[i][1], d[i][2]>> : i \in 1..Len(d)}

\* sync() has built its two work lists and has not crashed
Planned == pc \in {"Reconciled", "Uploading", "Deleting", "Done"}

\* the run is in real mode and no store call has failed
AllSucceeded == ~dryRun /\ \A i \in 1..Len(calls) : calls[i].ok

\* the remote manifest as listS3Objects would build it now
RemoteManifestNow == S3Loop(Listed(store, prefix), store, prefix, <<>>)

\* the lines of the two classification loops
ClassMsgs ==
    {"Datei fehlt im S3", "Datei geaendert", "Datei aktuell", "Datei verwaist im S3"}

\* the classes printed for a path
ClassLines(p) == {i \in 1..Len(out) : out[i].msg \in ClassMsgs /\ out[i].arg = p}

\* the positions in calls of the calls of an operation
CallsOf(op) == {i \in 1..Len(calls) : calls[i].op = op}

(***************************************************************************)
(* C1 Convergence: when a real-mode run completes and every upload and     *)
(* delete succeeded, the relative keys stored under the namespace are the  *)
(* local relative paths, each with the local file's identifier.            *)
(***************************************************************************)
Convergence ==
    (pc = "Done" /\ AllSucceeded) => AsMap(RemoteManifestNow) = AsMap(localFiles)

(***************************************************************************)
(* C2 Upload classification: the upload list holds exactly the local paths *)
(* that the remote manifest lacks or holds with another identifier.        *)
(***************************************************************************)
UploadClassification ==
    Planned =>
        Range(uploads) =
            {p \in DictKeys(localFiles) :
                \/ p \notin DictKeys(s3Objects)
                \/ \E l \in AsMap(localFiles), r \in AsMap(s3Objects) :
                       l[1] = p /\ r[1] = p /\ l[2] # r[2]}

\* a run with a missing, a changed and a current local file
UploadClassificationWitness ==
    /\ Planned
    /\ Len(uploads) = 2
    /\ Len(localFiles) = 3
    /\ \E p \in Range(uploads) : p \in DictKeys(s3Objects)
    /\ \E p \in Range(uploads) : p \notin DictKeys(s3Objects)

(***************************************************************************)
(* C3 Delete classification: the delete list holds exactly the remote      *)
(* relative keys that the local manifest lacks; with an empty local        *)
(* manifest that is every remote key, and the upload list is empty.        *)
(***************************************************************************)
DeleteClassification ==
    Planned =>
        /\ Range(deletes) = DictKeys(s3Objects) \ DictKeys(localFiles)
        /\ localFiles = <<>> =>
               (Range(deletes) = DictKeys(s3Objects) /\ uploads = <<>>)

\* a run with an orphaned remote key and a remote key that is kept
DeleteClassificationWitness ==
    /\ Planned
    /\ deletes # <<>>
    /\ \E k \in DictKeys(s3Objects) : k \in DictKeys(localFiles)

(***************************************************************************)
(* C4 Partition completeness: every path of either manifest gets exactly   *)
(* one class (one classification line), a path of neither gets none; the   *)
(* upload list holds the missing and changed paths and the delete list the *)
(* orphaned ones; no path is in both lists or twice in one.                *)
(***************************************************************************)
PartitionCompleteness ==
    Planned =>
        /\ \A p \in DictKeys(localFiles) \cup DictKeys(s3Objects) :
               /\ Cardinality(ClassLines(p)) = 1
               /\ \A i \in ClassLines(p) :
                      /\ p \in Range(uploads) <=>
                             out[i].msg \in {"Datei fehlt im S3", "Datei geaendert"}
                      /\ p \in Range(deletes) <=> out[i].msg = "Datei verwaist im S3"
        /\ \A i \in 1..Len(out) :
               out[i].msg \in ClassMsgs =>
                   out[i].arg \in DictKeys(localFiles) \cup DictKeys(s3Objects)
        /\ Range(uploads) \cap Range(deletes) = {}
        /\ NoDup(uploads)
        /\ NoDup(deletes)

\* a run with a current file, an upload and a delete
PartitionCompletenessWitness ==
    /\ Planned
    /\ uploads # <<>>
    /\ deletes # <<>>
    /\ \E i \in 1..Len(out) : out[i].msg = "Datei aktuell"

(***************************************************************************)
(* C5 Idempotence: after a real-mode run that completed with every         *)
(* transfer successful, reconciling the same local manifest with the       *)
(* remote manifest listed again gives two empty lists.                     *)
(***************************************************************************)
Idempotence ==
    (pc = "Done" /\ AllSucceeded) =>
        /\ UploadList(localFiles, RemoteManifestNow) = <<>>
        /\ DeleteList(localFiles, RemoteManifestNow) = <<>>

(***************************************************************************)
(* C6 Dry-run non-mutation: in a dry run no upload or delete call is ever  *)
(* made on the store, and no step changes the bucket or the local tree.    *)
(***************************************************************************)
DryRunNonMutation ==
    /\ [](dryRun => calls = <<>>)
    /\ [][dryRun => (store' = store /\ localFS' = localFS)]_vars

\* a completed dry run that had uploads and deletes to report
DryRunNonMutationWitness ==
    /\ dryRun
    /\ pc = "Done"
    /\ uploads # <<>>
    /\ deletes # <<>>

(***************************************************************************)
(* C7 Delete-after-upload: when a delete call is made in a real-mode run,  *)
(* no upload is queued or in flight, and the upload of every item of the   *)
(* upload list has been called and has returned before it.                 *)
(***************************************************************************)
DeleteAfterUpload ==
    \A i \in CallsOf("delete") :
        /\ queue = <<>>
        /\ inflight = {}
        /\ \A p \in Range(uploads) :
               \E j \in CallsOf("upload") : j < i /\ calls[j].key = S3Key(prefix, p)

\* a real-mode run that made a delete call after two uploads, one failed
DeleteAfterUploadWitness ==
    /\ CallsOf("delete") # {}
    /\ Len(uploads) >= 2
    /\ \E j \in CallsOf("upload") : ~calls[j].ok

(***************************************************************************)
(* C8 Bounded upload concurrency: the uploads in flight never exceed the   *)
(* configured limit maxThreads.                                            *)
(***************************************************************************)
BoundedConcurrency == Cardinality(inflight) <= maxThreads

\* the limit is reached while an upload is still waiting in the queue
BoundedConcurrencyWitness ==
    /\ maxThreads >= 2
    /\ Cardinality(inflight) = maxThreads
    /\ queue # <<>>

(***************************************************************************)
(* C9 Isolation of upload failure: once the pool has been left in a        *)
(* real-mode run in which exactly one upload failed, every other item of   *)
(* the upload list has been uploaded successfully, once, and reported.     *)
(***************************************************************************)
UploadFailureIsolation ==
    (/\ pc \in {"Deleting", "Done", "Crashed"}
     /\ ~dryRun
     /\ Cardinality({j \in CallsOf("upload") : ~calls[j].ok}) = 1) =>
        \A p \in Range(uploads) :
            \/ \E j \in CallsOf("upload") :
                   ~calls[j].ok /\ calls[j].key = S3Key(prefix, p)
            \/ /\ \E j \in CallsOf("upload") :
                      calls[j].ok /\ calls[j].key = S3Key(prefix, p)
               /\ \E i \in 1..Len(out) :
                      out[i].msg = "Hochgeladen" /\ out[i].arg = S3Key(prefix, p)

\* three uploads, the one that failed was neither the first nor the last to end
UploadFailureIsolationWitness ==
    /\ pc = "Done"
    /\ ~dryRun
    /\ Len(uploads) = 3
    /\ Len(calls) >= 3
    /\ calls[1].op = "upload" /\ calls[1].ok
    /\ calls[2].op = "upload" /\ ~calls[2].ok
    /\ calls[3].op = "upload" /\ calls[3].ok

(***************************************************************************)
(* C10 Isolation of delete failure: when a delete has failed in a          *)
(* real-mode run and the run has ended, every item of the delete list has  *)
(* been attempted.                                                         *)
(***************************************************************************)
DeleteFailureIsolation ==
    (/\ pc \in {"Done", "Crashed"}
     /\ \E i \in CallsOf("delete") : ~calls[i].ok) =>
        \A d \in Range(deletes) :
            \E i \in CallsOf("delete") : calls[i].key = S3Key(prefix, d)


(***************************************************************************)
(* C11 Partial-failure completion: a run that has made a transfer call on  *)
(* the store goes on until it is Done; it never stops anywhere else, also  *)
(* when an upload or a delete has failed.                                  *)
(***************************************************************************)
PartialFailureCompletion ==
    calls # <<>> => (pc = "Done" \/ ENABLED Next)


(***************************************************************************)
(* C12 Remote listing failure is fatal before any transfer: once listing   *)
(* the namespace has failed, the run has no work list, makes no upload or  *)
(* delete call and reports no upload or delete, in either mode.            *)
(***************************************************************************)
TransferMsgs ==
    {"Hochgeladen", "Geloescht", "[DryRun] Wuerde hochladen", "[DryRun] Wuerde loeschen"}

RemoteListFatal ==
    error \in {"RemoteListError", "NoCredentialsError"} =>
        /\ calls = <<>>
        /\ uploads = <<>> /\ deletes = <<>>
        /\ queue = <<>> /\ inflight = {}
        /\ \A i \in 1..Len(out) : out[i].msg \notin TransferMsgs
        /\ ~ENABLED Next

\* the listing failed in a run that had a file to upload and an object to delete
RemoteListFatalWitness ==
    /\ error = "RemoteListError"
    /\ localFiles # <<>>
    /\ Listed(store, prefix) # <<>>
    /\ UploadList(localFiles, RemoteManifestNow) # <<>>
    /\ DeleteList(localFiles, RemoteManifestNow) # <<>>


(***************************************************************************)
(* C13 Local read failure is recovered per file: when fingerprinting a     *)
(* local file has failed, the run does not stop there; it goes on (with    *)
(* the other files) until it is Done.                                      *)
(***************************************************************************)
LocalReadRecovered ==
    error = "LocalReadError" => (pc = "Done" \/ ENABLED Next)


(***************************************************************************)
(* C14 Exit status: the process ends with a status other than zero when    *)
(* the store could not be reached (no credentials), and with status zero   *)
(* whenever the store was reached (the listing succeeded), failed uploads  *)
(* or deletes included.                                                    *)
(***************************************************************************)
StoreReached == error \in {"none", "TransferError", "ValueError"}

ExitStatus ==
    exit # -1 =>
        /\ error = "NoCredentialsError" => exit # 0
        /\ StoreReached => exit = 0


(***************************************************************************)
(* C15 Every transfer outcome is reported: when a real-mode run is Done,   *)
(* each item of the upload list has exactly one report line naming its     *)
(* key, whether its upload succeeded or failed.                            *)
(***************************************************************************)
\* the lines that report on the upload of a key: every line that names it,
\* the classification lines and the delete lines aside
UploadReports(key) ==
    {i \in 1..Len(out) :
        /\ out[i].arg = key
        /\ out[i].msg \notin ClassMsgs \cup {"Geloescht", "[DryRun] Wuerde loeschen"}}

UploadOutcomesReported ==
    (pc = "Done" /\ ~dryRun) =>
        \A p \in Range(uploads) : Cardinality(UploadReports(S3Key(prefix, p))) = 1


(***************************************************************************)
(* C16 Remote key round trip: for every key the store lists under the      *)
(* prefix, the key deleteS3Object targets for the relative key that        *)
(* listS3Objects recorded is the listed key again, and different listed    *)
(* keys get different relative keys.                                       *)
(***************************************************************************)
KeyRoundTrip ==
    pc = "RemoteListed" =>
        LET listed == Range(Listed(store, prefix)) IN
        /\ DictKeys(s3Objects) = {RelativeKey(k, prefix) : k \in listed}
        /\ \A k \in listed : S3Key(prefix, RelativeKey(k, prefix)) = k
        /\ \A k1, k2 \in listed :
               RelativeKey(k1, prefix) = RelativeKey(k2, prefix) => k1 = k2


(***************************************************************************)
(* C17 Deterministic work-list order: the upload list and the delete list  *)
(* depend on the two manifests as mappings only: every order in which      *)
(* os.walk can enumerate the same tree (the store lists in key order)      *)
(* gives the lists this run built.                                         *)
(***************************************************************************)
DeterministicOrder ==
    pc = "Reconciled" =>
        \A walk \in WalkOrders(DOMAIN localFS) :
            LET local == LocalLoop(walk, localFS, <<>>)
            IN AsMap(local) = AsMap(localFiles) =>
                   /\ UploadList(local, s3Objects) = uploads
                   /\ DeleteList(local, s3Objects) = deletes


(***************************************************************************)
(* C18 Exactly-once dispatch: in a real-mode run every item of the upload  *)
(* list is, at any moment, either waiting in the queue once, or held by    *)
(* one worker, or has had its one upload call; when the pool has been left *)
(* every item has had exactly one upload call and there is no other.       *)
(***************************************************************************)
\* how often the upload of a local file has been called
UploadCallCount(p) ==
    Cardinality({j \in CallsOf("upload") : calls[j].key = S3Key(prefix, p)})

ExactlyOnceDispatch ==
    (~dryRun /\ (pc \in {"Uploading", "Deleting", "Done"} \/ error = "TransferError")) =>
        /\ \A p \in Range(uploads) :
               /\ Cardinality({i \in 1..Len(queue) : queue[i] = p})
                      + (IF p \in inflight THEN 1 ELSE 0) + UploadCallCount(p) = 1
               /\ pc # "Uploading" => UploadCallCount(p) = 1
        /\ inflight \subseteq Range(uploads)
        /\ Cardinality(CallsOf("upload")) <= Len(uploads)

\* three uploads on two workers, all successful, ended in another order than
\* they were submitted
ExactlyOnceDispatchWitness ==
    /\ pc = "Done"
    /\ ~dryRun
    /\ maxThreads = 2
    /\ Len(uploads) = 3
    /\ Cardinality(CallsOf("upload")) = 3
    /\ \A j \in CallsOf("upload") : calls[j].ok
    /\ calls[1].key = S3Key(prefix, uploads[2])


(***************************************************************************)
(* C19 Dry-run report matches the real plan: the two work lists are built  *)
(* without reading dryRun, so for the same manifests both modes have the   *)
(* same plan; a run that has ended after its transfer stage has, for       *)
(* exactly the keys of the plan, emitted an intent (dry run) or made the   *)
(* call (real mode), uploads before deletes.                               *)
(***************************************************************************)
\* the positions in out of the lines with a message
LinesOf(msg) == {i \in 1..Len(out) : out[i].msg = msg}

DryRunMatchesPlan ==
    (exit # -1 /\ error \in {"none", "TransferError"}) =>
        LET upKeys == {S3Key(prefix, p) : p \in Range(uploads)}
            delKeys == {S3Key(prefix, d) : d \in Range(deletes)}
        IN IF dryRun
           THEN /\ {out[i].arg : i \in LinesOf("[DryRun] Wuerde hochladen")} = upKeys
                /\ {out[i].arg : i \in LinesOf("[DryRun] Wuerde loeschen")} = delKeys
                /\ \A i \in LinesOf("[DryRun] Wuerde hochladen"),
                      j \in LinesOf("[DryRun] Wuerde loeschen") : i < j
           ELSE /\ {calls[i].key : i \in CallsOf("upload")} = upKeys
                /\ {calls[i].key : i \in CallsOf("delete")} = delKeys
                /\ \A i \in CallsOf("upload"), j \in CallsOf("delete") : i < j

====
